---- MODULE Spec2Model ----
(***************************************************************************)
(* Availability reconciliation of the clippy command-line client:          *)
(* findFreeSlots, findBusyFromFreeSlots, parseAvailabilityView and the     *)
(* freebusy command that drives them (src/src/commands/freebusy.ts).       *)
(*                                                                         *)
(* Instants are whole minutes counted from the local midnight of the       *)
(* epoch day; a Date of the source is the integer of its instant.          *)
(***************************************************************************)
EXTENDS Integers, Sequences, FiniteSets, TLC

\* ------------------------------------------------------------------ bounds

\* Longest slot list / free-item list handed to the sweeps.
MaxSlots == 2
\* Work-hour options (--start, --end) and slot endpoints are drawn from the
\* hours 0..MaxHour of the day.
MaxHour == 3
\* Longest availability-view string handed to the decoder.
MaxBuckets == 4
\* Most mailboxes (schedules) in the answer to a multi-user query.
MaxSchedules == 1
\* Longest free slot, in minutes, whose duration is rendered.
MaxDuration == 125
\* Most calendar events getCalendarEvents answers for a day.
MaxEvents == 3

\* ------------------------------------------------------------------ constants

MinutesPerHour == 60
MinutesPerDay == 24 * MinutesPerHour
\* getDateRange: start of the target day (setHours(0, 0, 0, 0)).
DayStart == 0
\* getDateRange: end of the target day (setHours(23, 59, 59, 999)), to the minute.
DayEnd == MinutesPerDay - 1

Null == "null"
\* `current` of parseAvailabilityView while no run is open (null in the source).
NoBlock == [start |-> 0, end |-> 0, status |-> Null]

Statuses == {"Free", "Busy", "Tentative"}
Hours == 0..MaxHour
Instants == {h * MinutesPerHour : h \in Hours}

\* FreeBusySlot / ScheduleItem: an interval of the remote service with its status.
Slot == [start : Instants, end : Instants, status : Statuses]

\* The sequences over S of length at most n.
SeqsUpTo(S, n) == UNION {[1..k -> S] : k \in 0..n}

\* ------------------------------------------------------------------ helpers

\* Date.prototype.setHours(h, 0, 0, 0): hour h of the local day of `date`.
SetHours(date, h) == (date \div MinutesPerDay) * MinutesPerDay + h * MinutesPerHour

\* Insert x after every element whose start is <= x.start (keeps the sort stable).
RECURSIVE InsertByStart(_, _)
InsertByStart(sorted, x) ==
    IF sorted = <<>> THEN <<x>>
    ELSE IF Head(sorted).start <= x.start
         THEN <<Head(sorted)>> \o InsertByStart(Tail(sorted), x)
         ELSE <<x>> \o sorted

\* Array.prototype.sort((a, b) => a.start.getTime() - b.start.getTime()): stable.
RECURSIVE SortByStart(_)
SortByStart(seq) ==
    IF seq = <<>> THEN <<>>
    ELSE InsertByStart(SortByStart(SubSeq(seq, 1, Len(seq) - 1)), seq[Len(seq)])

\* .map(s => ({start: new Date(s.start), end: new Date(s.end)}))
ToInterval(s) == [start |-> s.start, end |-> s.end]
MapIntervals(seq) == [i \in 1..Len(seq) |-> ToInterval(seq[i])]

\* ------------------------------------------------------------------ findFreeSlots

IsBusySlot(s) == s.status # "Free"

\* FreeStep with the cursor set to the end of every busy slot, also one that ends
\* before the cursor.
FreeStep_CursorRetreats(busy, current, freeSlots, workingStart, workingEnd) ==
    IF busy.end <= workingStart \/ busy.start >= workingEnd
    THEN [current |-> current, freeSlots |-> freeSlots]
    ELSE LET busyStart == IF busy.start < workingStart THEN workingStart ELSE busy.start
             busyEnd == IF busy.end > workingEnd THEN workingEnd ELSE busy.end
         IN  [current |-> busyEnd,
              freeSlots |-> IF busyStart > current
                            THEN Append(freeSlots, [start |-> current, end |-> busyStart])
                            ELSE freeSlots]

\* FreeStep without the skip of busy slots outside the working hours.
FreeStep_NoSkip(busy, current, freeSlots, workingStart, workingEnd) ==
    LET busyStart == IF busy.start < workingStart THEN workingStart ELSE busy.start
        busyEnd == IF busy.end > workingEnd THEN workingEnd ELSE busy.end
    IN  [current |-> IF busyEnd > current THEN busyEnd ELSE current,
         freeSlots |-> IF busyStart > current
                       THEN Append(freeSlots, [start |-> current, end |-> busyStart])
                       ELSE freeSlots]

\* One iteration of the loop over busySlots: returns the cursor and the free list.
FreeStep(busy, current, freeSlots, workingStart, workingEnd) ==
    IF busy.end <= workingStart \/ busy.start >= workingEnd
    THEN [current |-> current, freeSlots |-> freeSlots]
    ELSE LET busyStart == IF busy.start < workingStart THEN workingStart ELSE busy.start
             busyEnd == IF busy.end > workingEnd THEN workingEnd ELSE busy.end
         IN  [current |-> IF busyEnd > current THEN busyEnd ELSE current,
              freeSlots |-> IF busyStart > current
                            THEN Append(freeSlots, [start |-> current, end |-> busyStart])
                            ELSE freeSlots]

\* FreeSweep that adds the remaining time also when the cursor is at the end of
\* the working hours.
RECURSIVE FreeSweep_TrailingInclusive(_, _, _, _, _)
FreeSweep_TrailingInclusive(busySlots, current, freeSlots, workingStart, workingEnd) ==
    IF busySlots = <<>>
    THEN IF current <= workingEnd
         THEN Append(freeSlots, [start |-> current, end |-> workingEnd])
         ELSE freeSlots
    ELSE LET r == FreeStep(Head(busySlots), current, freeSlots, workingStart, workingEnd)
         IN  FreeSweep_TrailingInclusive(Tail(busySlots), r.current, r.freeSlots,
                                         workingStart, workingEnd)

RECURSIVE FreeSweep(_, _, _, _, _)
FreeSweep(busySlots, current, freeSlots, workingStart, workingEnd) ==
    IF busySlots = <<>>
    THEN IF current < workingEnd
         THEN Append(freeSlots, [start |-> current, end |-> workingEnd])
         ELSE freeSlots
    ELSE LET r == FreeStep(Head(busySlots), current, freeSlots, workingStart, workingEnd)
         IN  FreeSweep(Tail(busySlots), r.current, r.freeSlots, workingStart, workingEnd)

findFreeSlots(slots, dayStart, dayEnd, workStart, workEnd) ==
    LET workingStart == SetHours(dayStart, workStart)
        workingEnd == SetHours(dayStart, workEnd)
        busySlots == SortByStart(MapIntervals(SelectSeq(slots, IsBusySlot)))
    IN  FreeSweep(busySlots, workingStart, <<>>, workingStart, workingEnd)

\* ------------------------------------------------------------------ formatTime

\* The hours of the hour cycle of formatTime.
HoursPerDay == 24

\* formatTime: toLocaleTimeString('en-US', {hour: '2-digit', minute: '2-digit',
\* hour12: false}) keeps the local hour and minute of the instant and drops the
\* date; the string "HH:MM" is the pair <<HH, MM>>. With hour12: false and no
\* hourCycle the en-US locale counts the hours 01..24: the hour after midnight
\* is printed as 24 ("24:00", "24:30"), the hours 1..23 as they are.
formatTime(t) ==
    LET hour == (t % MinutesPerDay) \div MinutesPerHour
    IN  <<IF hour = 0 THEN HoursPerDay ELSE hour, t % MinutesPerHour>>

\* The minute of the day a rendered "HH:MM" names: hour 24 of the cycle 01..24
\* is the hour after midnight.
MinuteOfDay(hhmm) == (hhmm[1] % HoursPerDay) * MinutesPerHour + hhmm[2]

\* ------------------------------------------------------------------ findBusyFromFreeSlots

IsFreeItem(item) == item.status = "Free"

\* One iteration of the loop over freeSlots: returns the cursor and the busy list.
BusyStep(free, current, busySlots, workStartAt, workEndAt) ==
    LET freeStart == IF free.start < workStartAt THEN workStartAt ELSE free.start
        freeEnd == IF free.end > workEndAt THEN workEndAt ELSE free.end
    IN  [current |-> IF freeEnd > current THEN freeEnd ELSE current,
         busySlots |-> IF freeStart > current
                       THEN Append(busySlots, [startTime |-> formatTime(current),
                                               endTime |-> formatTime(freeStart),
                                               status |-> "Busy"])
                       ELSE busySlots]

\* BusySweep without the busy time after the last free slot.
RECURSIVE BusySweep_NoTrailingGap(_, _, _, _, _)
BusySweep_NoTrailingGap(freeSlots, current, busySlots, workStartAt, workEndAt) ==
    IF freeSlots = <<>>
    THEN busySlots
    ELSE LET r == BusyStep(Head(freeSlots), current, busySlots, workStartAt, workEndAt)
         IN  BusySweep_NoTrailingGap(Tail(freeSlots), r.current, r.busySlots,
                                     workStartAt, workEndAt)

RECURSIVE BusySweep(_, _, _, _, _)
BusySweep(freeSlots, current, busySlots, workStartAt, workEndAt) ==
    IF freeSlots = <<>>
    THEN IF current < workEndAt
         THEN Append(busySlots, [startTime |-> formatTime(current),
                                 endTime |-> formatTime(workEndAt),
                                 status |-> "Busy"])
         ELSE busySlots
    ELSE LET r == BusyStep(Head(freeSlots), current, busySlots, workStartAt, workEndAt)
         IN  BusySweep(Tail(freeSlots), r.current, r.busySlots, workStartAt, workEndAt)

\* findBusyFromFreeSlots with the cursor started at the day start, not at the
\* start of the working hours.
findBusyFromFreeSlots_CursorAtDayStart(freeItems, dayStart, workStartHour, workEndHour) ==
    LET workStartAt == SetHours(dayStart, workStartHour)
        workEndAt == SetHours(dayStart, workEndHour)
        InWorkingHours(slot) == slot.end > workStartAt /\ slot.start < workEndAt
        freeSlots == SortByStart(SelectSeq(MapIntervals(SelectSeq(freeItems, IsFreeItem)),
                                        InWorkingHours))
    IN  BusySweep(freeSlots, dayStart, <<>>, workStartAt, workEndAt)

findBusyFromFreeSlots(freeItems, dayStart, workStartHour, workEndHour) ==
    LET workStartAt == SetHours(dayStart, workStartHour)
        workEndAt == SetHours(dayStart, workEndHour)
        InWorkingHours(slot) == slot.end > workStartAt /\ slot.start < workEndAt
        freeSlots == SortByStart(SelectSeq(MapIntervals(SelectSeq(freeItems, IsFreeItem)),
                                        InWorkingHours))
    IN  BusySweep(freeSlots, workStartAt, <<>>, workStartAt, workEndAt)

\* The free slots of findFreeSlots handed on as free schedule items.
AsFreeItems(freeSlots) ==
    [i \in 1..Len(freeSlots) |->
        [start |-> freeSlots[i].start, end |-> freeSlots[i].end, status |-> "Free"]]

\* ------------------------------------------------------------------ parseAvailabilityView

\* The characters an availability view is drawn from: the five mapped codes and
\* two the statusMap does not know.
Codes == {"0", "1", "2", "3", "4", "x", "y"}
\* The bucket widths the decoder is applied with (the command passes 30).
IntervalChoices == {15, 30, 60}

\* statusMap that takes a code it does not know for Free.
statusMap_UnknownIsFree(code) ==
    CASE code = "0" -> "Free"
      [] code = "1" -> "Tentative"
      [] code = "2" -> "Busy"
      [] code = "3" -> "Out of Office"
      [] code = "4" -> "Working Elsewhere"
      [] OTHER -> "Free"

\* statusMap[view[i]] || 'Unknown'
statusMap(code) ==
    CASE code = "0" -> "Free"
      [] code = "1" -> "Tentative"
      [] code = "2" -> "Busy"
      [] code = "3" -> "Out of Office"
      [] code = "4" -> "Working Elsewhere"
      [] OTHER -> "Unknown"

\* ViewStep that extends the open run whatever the status of the bucket.
ViewStep_IgnoresStatusChange(code, i, current, blocks, startDate, intervalMinutes) ==
    LET time == startDate + i * intervalMinutes
        status == statusMap(code)
    IN  IF status = "Free"
        THEN [current |-> NoBlock,
              blocks |-> IF current # NoBlock THEN Append(blocks, current) ELSE blocks]
        ELSE IF current = NoBlock
             THEN [current |-> [start |-> time, end |-> time + intervalMinutes,
                                status |-> status],
                   blocks |-> blocks]
             ELSE [current |-> [current EXCEPT !.end = time + intervalMinutes],
                   blocks |-> blocks]

\* The body of the loop for bucket i (0-based): returns the open run and the blocks.
ViewStep(code, i, current, blocks, startDate, intervalMinutes) ==
    LET time == startDate + i * intervalMinutes
        status == statusMap(code)
    IN  IF status = "Free"
        THEN [current |-> NoBlock,
              blocks |-> IF current # NoBlock THEN Append(blocks, current) ELSE blocks]
        ELSE IF current = NoBlock \/ current.status # status
             THEN [current |-> [start |-> time, end |-> time + intervalMinutes,
                                status |-> status],
                   blocks |-> IF current # NoBlock THEN Append(blocks, current) ELSE blocks]
             ELSE [current |-> [current EXCEPT !.end = time + intervalMinutes],
                   blocks |-> blocks]

RECURSIVE ViewWalk(_, _, _, _, _, _)
ViewWalk(view, i, current, blocks, startDate, intervalMinutes) ==
    IF i >= Len(view)
    THEN IF current # NoBlock THEN Append(blocks, current) ELSE blocks
    ELSE LET r == ViewStep(view[i + 1], i, current, blocks, startDate, intervalMinutes)
         IN  ViewWalk(view, i + 1, r.current, r.blocks, startDate, intervalMinutes)

parseAvailabilityView(view, startDate, intervalMinutes) ==
    ViewWalk(view, 0, NoBlock, <<>>, startDate, intervalMinutes)

\* ------------------------------------------------------------------ state

VARIABLES
    pc,          \* position of the run
    slots,       \* the fetched slot list / free-item list
    workStart,   \* parseInt(options.start)
    workEnd,     \* parseInt(options.end)
    freeOut,     \* result of findFreeSlots, empty before the call
    busyOut,     \* result of findBusyFromFreeSlots, empty before the call
    view,        \* an availability-view string, one code per bucket
    viewArgs,    \* [startDate, intervalMinutes] of the decoder call
    blocks,      \* result of parseAvailabilityView, empty before the call
    opts,        \* the command line: [emails, json, free]
    authResult,  \* what resolveAuth answered: [success, graphToken]
    result,      \* the `result` of the action: [ok, hasData, error]
    schedules,   \* result.data of a multi-user query
    calls,       \* the remote calls made so far, in order
    answers,     \* the answers to them so far: [fn, ok]
    engine,      \* the interval functions executed so far
    out,         \* what the run has printed, in order
    exitCode,    \* the exit code of the process: 1 once process.exit(1) ran
    deleteOpts,  \* the command line of delete-event: [eventIndex, search, json]
    fetched,     \* result.data of getCalendarEvents
    events,      \* the filtered list `events` of delete-event
    deleted      \* the event ids deleteEvent was called with, in order

vars == <<pc, slots, workStart, workEnd, freeOut, busyOut, view, viewArgs, blocks,
          opts, authResult, result, schedules, calls, answers, engine, out, exitCode,
          deleteOpts, fetched, events, deleted>>

deleteVars == <<deleteOpts, fetched, events, deleted>>

NoDelete ==
    /\ deleteOpts = [eventIndex |-> Null, search |-> Null, json |-> FALSE]
    /\ fetched = <<>>
    /\ events = <<>>
    /\ deleted = <<>>

sweepVars == <<slots, workStart, workEnd, freeOut, busyOut>>
viewVars == <<view, viewArgs, blocks>>

NoSweep ==
    /\ slots = <<>>
    /\ workStart = 0
    /\ workEnd = 0
    /\ freeOut = <<>>
    /\ busyOut = <<>>

NoResult == [ok |-> FALSE, hasData |-> FALSE, error |-> Null]

commandVars == <<opts, authResult, result, schedules, calls, answers, engine, out, exitCode,
                 deleteVars>>

NoCommand ==
    /\ opts = [emails |-> FALSE, json |-> FALSE, free |-> FALSE]
    /\ authResult = [success |-> FALSE, graphToken |-> FALSE]
    /\ result = NoResult
    /\ schedules = <<>>
    /\ calls = <<>>
    /\ answers = <<>>
    /\ engine = {}
    /\ out = <<>>
    /\ exitCode = 0
    /\ NoDelete

NoView ==
    /\ view = <<>>
    /\ viewArgs = [startDate |-> DayStart, intervalMinutes |-> 30]
    /\ blocks = <<>>

\* ------------------------------------------------------------------ the sweeps on every input

SweepInit ==
    /\ pc = "input"
    /\ slots \in SeqsUpTo(Slot, MaxSlots)
    /\ workStart \in Hours
    /\ workEnd \in Hours
    /\ workStart < workEnd
    /\ freeOut = <<>>
    /\ busyOut = <<>>
    /\ NoView
    /\ NoCommand

\* findFreeSlots(result.data, start, end, workStart, workEnd)
CallFindFreeSlots ==
    /\ pc = "input"
    /\ freeOut' = findFreeSlots(slots, DayStart, DayEnd, workStart, workEnd)
    /\ pc' = "free"
    /\ UNCHANGED <<slots, workStart, workEnd, busyOut, viewVars, commandVars>>

\* findBusyFromFreeSlots(schedule.scheduleItems, start, workStart, workEnd)
CallFindBusyFromFreeSlots ==
    /\ pc = "input"
    /\ busyOut' = findBusyFromFreeSlots(slots, DayStart, workStart, workEnd)
    /\ pc' = "busy"
    /\ UNCHANGED <<slots, workStart, workEnd, freeOut, viewVars, commandVars>>

\* Both sweeps on one dataset: the busy-labelled slots through findFreeSlots,
\* the free-labelled ones through findBusyFromFreeSlots.
CallBoth ==
    /\ pc = "input"
    /\ freeOut' = findFreeSlots(slots, DayStart, DayEnd, workStart, workEnd)
    /\ busyOut' = findBusyFromFreeSlots(slots, DayStart, workStart, workEnd)
    /\ pc' = "both"
    /\ UNCHANGED <<slots, workStart, workEnd, viewVars, commandVars>>

\* findFreeSlots, then findBusyFromFreeSlots on its result labelled Free.
CallRoundTrip ==
    /\ pc = "input"
    /\ freeOut' = findFreeSlots(slots, DayStart, DayEnd, workStart, workEnd)
    /\ busyOut' = findBusyFromFreeSlots(AsFreeItems(freeOut'), DayStart, workStart, workEnd)
    /\ pc' = "round"
    /\ UNCHANGED <<slots, workStart, workEnd, viewVars, commandVars>>

SweepNext ==
    \/ CallFindFreeSlots
    \/ CallFindBusyFromFreeSlots
    \/ CallBoth
    \/ CallRoundTrip

SweepSpec == SweepInit /\ [][SweepNext]_vars

\* ------------------------------------------------------------------ the sweeps on an inverted window

\* Every slot list with every work window whose start hour is not before its
\* end hour.
InvertedWindowInit ==
    /\ pc = "input"
    /\ slots \in SeqsUpTo(Slot, MaxSlots)
    /\ workStart \in Hours
    /\ workEnd \in Hours
    /\ workStart >= workEnd
    /\ freeOut = <<>>
    /\ busyOut = <<>>
    /\ NoView
    /\ NoCommand

InvertedWindowNext ==
    \/ CallFindFreeSlots
    \/ CallFindBusyFromFreeSlots

InvertedWindowSpec == InvertedWindowInit /\ [][InvertedWindowNext]_vars

\* ------------------------------------------------------------------ the decoder on every input

DecodeInit ==
    /\ pc = "input"
    /\ view \in SeqsUpTo(Codes, MaxBuckets)
    /\ viewArgs \in [startDate : {SetHours(DayStart, h) : h \in Hours},
                     intervalMinutes : IntervalChoices]
    /\ blocks = <<>>
    /\ NoSweep
    /\ NoCommand

\* parseAvailabilityView(schedule.availabilityView, start, 30)
CallParseAvailabilityView ==
    /\ pc = "input"
    /\ blocks' = parseAvailabilityView(view, viewArgs.startDate, viewArgs.intervalMinutes)
    /\ pc' = "decoded"
    /\ UNCHANGED <<view, viewArgs, sweepVars, commandVars>>

DecodeNext == CallParseAvailabilityView

DecodeSpec == DecodeInit /\ [][DecodeNext]_vars

\* ------------------------------------------------------------------ the freebusy command

\* One schedule of a multi-user answer: its free items or its availability view.
Schedule(maxItems, maxCodes) ==
    {[scheduleItems |-> items, availabilityView |-> <<>>] : items \in SeqsUpTo(Slot, maxItems)}
        \cup {[scheduleItems |-> <<>>, availabilityView |-> v] : v \in SeqsUpTo(Codes, maxCodes)}
\* result.data of a multi-user answer.
ScheduleLists(n) == SeqsUpTo(Schedule(MaxSlots, MaxBuckets), n)

\* What a remote call can answer: ok or not, with or without data, with or
\* without an error message.
FetchResults ==
    {[ok |-> TRUE, hasData |-> TRUE, error |-> Null],
     [ok |-> TRUE, hasData |-> FALSE, error |-> Null],
     [ok |-> FALSE, hasData |-> TRUE, error |-> "service error"],
     [ok |-> FALSE, hasData |-> FALSE, error |-> "service error"],
     [ok |-> FALSE, hasData |-> FALSE, error |-> Null]}

\* Date.prototype.toISOString keeps the whole instant: its day, hour and minute.
toISOString(t) ==
    <<t \div MinutesPerDay, (t % MinutesPerDay) \div MinutesPerHour, t % MinutesPerHour>>

\* Math.round((slot.end.getTime() - slot.start.getTime()) / 60000): the length of
\* a slot in minutes (instants are whole minutes, so nothing is rounded away).
DurationOf(slot) == slot.end - slot.start

\* One term of a rendered duration: "{n}h" or "{n}m".
Term(n, unit) == [n |-> n, unit |-> unit]

\* durationStr that always prints both terms.
durationStr_BothTerms(duration) ==
    LET hours == duration \div MinutesPerHour
        mins == duration % MinutesPerHour
    IN  <<Term(hours, "h"), Term(mins, "m")>>

\* hours > 0 ? `${hours}h${mins > 0 ? ` ${mins}m` : ''}` : `${mins}m`
\* The string is the sequence of its terms, which a blank separates.
durationStr(duration) ==
    LET hours == duration \div MinutesPerHour
        mins == duration % MinutesPerHour
    IN  IF hours > 0
        THEN <<Term(hours, "h")>> \o (IF mins > 0 THEN <<Term(mins, "m")>> ELSE <<>>)
        ELSE <<Term(mins, "m")>>

\* One printed line. An interval line carries the rendered start and end, a
\* line of the free view in text also the rendered duration.
Line(kind, sched, viewKind, start, end, text) ==
    [kind |-> kind, sched |-> sched, view |-> viewKind, start |-> start, end |-> end,
     text |-> text, duration |-> <<>>]
TextLine(kind, sched, text) == Line(kind, sched, "", <<>>, <<>>, text)
\* `  ${formatTime(slot.start)} - ${formatTime(slot.end)} (${durationStr})`
FreeLine(slot) ==
    [Line("interval", 0, "free", formatTime(slot.start), formatTime(slot.end), "")
        EXCEPT !.duration = durationStr(DurationOf(slot))]

\* FetchFailed that trusts an ok answer to carry data.
FetchFailed_OkOnly(res) == ~res.ok

\* !result.ok || !result.data
FetchFailed(res) == ~res.ok \/ ~res.hasData

\* result.error?.message || 'Failed to fetch schedule', on stdout as JSON with
\* --json and on stderr without.
ErrorOutput(res) ==
    <<TextLine("error", 0, IF res.error # Null THEN res.error ELSE "Failed to fetch schedule")>>

\* The lines of one schedule in the text report of a multi-user query.
ScheduleOutput(schedule, k, ws, we) ==
    <<TextLine("schedule", k, "scheduleId")>> \o
    IF Len(schedule.scheduleItems) > 0
    THEN LET busySlots == findBusyFromFreeSlots(schedule.scheduleItems, DayStart, ws, we)
         IN  IF Len(busySlots) = 0
             THEN <<TextLine("message", k, "Free during working hours")>>
             ELSE [i \in 1..Len(busySlots) |->
                     Line("interval", k, "gaps", busySlots[i].startTime,
                          busySlots[i].endTime, busySlots[i].status)]
    ELSE IF Len(schedule.availabilityView) > 0
         THEN LET busyBlocks == parseAvailabilityView(schedule.availabilityView, DayStart, 30)
              IN  IF Len(busyBlocks) = 0
                  THEN <<TextLine("message", k, "Free all day")>>
                  ELSE [i \in 1..Len(busyBlocks) |->
                          Line("interval", k, "blocks", formatTime(busyBlocks[i].start),
                               formatTime(busyBlocks[i].end), busyBlocks[i].status)]
         ELSE <<TextLine("message", k, "Free all day")>>

RECURSIVE SchedulesOutput(_, _, _, _)
SchedulesOutput(data, k, ws, we) ==
    IF k > Len(data) THEN <<>>
    ELSE ScheduleOutput(data[k], k, ws, we) \o SchedulesOutput(data, k + 1, ws, we)

\* What the action prints for a multi-user answer that carries data.
MultiOutput(data, options, ws, we) ==
    IF options.json
    THEN <<TextLine("json-data", 0, "result.data")>>
    ELSE <<TextLine("header", 0, "Availability for")>> \o SchedulesOutput(data, 1, ws, we)

\* The interval functions the multi-user report executes.
MultiEngine(data, options) ==
    IF options.json THEN {}
    ELSE {"findBusyFromFreeSlots" : k \in {j \in 1..Len(data) :
                Len(data[j].scheduleItems) > 0}}
         \cup {"parseAvailabilityView" : k \in {j \in 1..Len(data) :
                Len(data[j].scheduleItems) = 0 /\ Len(data[j].availabilityView) > 0}}

\* The subjects a slot of the own schedule can carry: none, empty, or a text.
SlotSubjects == {Null, "", "Standup"}
\* FreeBusySlot of getFreeBusy: a Slot with its optional subject.
OwnSlot == [start : Instants, end : Instants, status : Statuses, subject : SlotSubjects]

\* slot.subject || slot.status
SlotLabel(slot) ==
    IF slot.subject # Null /\ slot.subject # "" THEN slot.subject ELSE slot.status

\* OwnOutput that prints the free view without the message for no free slot.
OwnOutput_NoFreeMessage(data, options, ws, we) ==
    IF options.free
    THEN LET freeSlots == findFreeSlots(data, DayStart, DayEnd, ws, we)
         IN  IF options.json
             THEN <<TextLine("json-list", 0, "free slots")>> \o
                  [i \in 1..Len(freeSlots) |->
                     Line("interval", 0, "free", toISOString(freeSlots[i].start),
                          toISOString(freeSlots[i].end), "")]
             ELSE <<TextLine("header", 0, "Free times for")>> \o
                  [i \in 1..Len(freeSlots) |-> FreeLine(freeSlots[i])]
    ELSE IF options.json
         THEN <<TextLine("json-data", 0, "result.data")>>
         ELSE LET busySlots == SelectSeq(data, IsBusySlot)
              IN  <<TextLine("header", 0, "Busy times for")>> \o
                  IF Len(busySlots) = 0
                  THEN <<TextLine("message", 0, "All day free!")>>
                  ELSE [i \in 1..Len(busySlots) |->
                          Line("interval", 0, "busy", formatTime(busySlots[i].start),
                               formatTime(busySlots[i].end), SlotLabel(busySlots[i]))]

\* What the action prints for the own schedule.
OwnOutput(data, options, ws, we) ==
    IF options.free
    THEN LET freeSlots == findFreeSlots(data, DayStart, DayEnd, ws, we)
         IN  IF options.json
             THEN <<TextLine("json-list", 0, "free slots")>> \o
                  [i \in 1..Len(freeSlots) |->
                     Line("interval", 0, "free", toISOString(freeSlots[i].start),
                          toISOString(freeSlots[i].end), "")]
             ELSE <<TextLine("header", 0, "Free times for")>> \o
                  IF Len(freeSlots) = 0
                  THEN <<TextLine("message", 0, "No free time during working hours.")>>
                  ELSE [i \in 1..Len(freeSlots) |-> FreeLine(freeSlots[i])]
    ELSE IF options.json
         THEN <<TextLine("json-data", 0, "result.data")>>
         ELSE LET busySlots == SelectSeq(data, IsBusySlot)
              IN  <<TextLine("header", 0, "Busy times for")>> \o
                  IF Len(busySlots) = 0
                  THEN <<TextLine("message", 0, "All day free!")>>
                  ELSE [i \in 1..Len(busySlots) |->
                          Line("interval", 0, "busy", formatTime(busySlots[i].start),
                               formatTime(busySlots[i].end), SlotLabel(busySlots[i]))]

\* The interval functions the own-schedule report executes.
OwnEngine(options) == IF options.free THEN {"findFreeSlots"} ELSE {}

CommandInit ==
    /\ pc = "start"
    /\ opts \in [emails : BOOLEAN, json : BOOLEAN, free : BOOLEAN]
    /\ workStart \in Hours
    /\ workEnd \in Hours
    /\ authResult = [success |-> FALSE, graphToken |-> FALSE]
    /\ result = NoResult
    /\ slots = <<>>
    /\ schedules = <<>>
    /\ calls = <<>>
    /\ answers = <<>>
    /\ engine = {}
    /\ out = <<>>
    /\ exitCode = 0
    /\ freeOut = <<>>
    /\ busyOut = <<>>
    /\ NoView
    /\ NoDelete

idleVars == <<workStart, workEnd, freeOut, busyOut, viewVars, opts, deleteVars>>

\* The action starts: await resolveAuth(...)
Invoke ==
    /\ pc = "start"
    /\ calls' = Append(calls, "resolveAuth")
    /\ pc' = "awaitAuth"
    /\ UNCHANGED <<idleVars, authResult, result, slots, schedules, answers, engine, out, exitCode>>

\* resolveAuth answers without success: the error is printed, process.exit(1).
AuthFails ==
    /\ pc = "awaitAuth"
    /\ authResult' = [success |-> FALSE, graphToken |-> FALSE]
    /\ out' = <<TextLine("error", 0, "authResult.error")>>
    /\ exitCode' = 1
    /\ pc' = "exited"
    /\ answers' = Append(answers, [fn |-> "resolveAuth", ok |-> FALSE])
    /\ UNCHANGED <<idleVars, result, slots, schedules, calls, engine>>

\* Authenticated with a Graph token, emails given: await getScheduleForUsers(...)
AuthThenGraph ==
    /\ pc = "awaitAuth"
    /\ opts.emails
    /\ authResult' = [success |-> TRUE, graphToken |-> TRUE]
    /\ calls' = Append(calls, "getScheduleForUsers")
    /\ pc' = "awaitGraph"
    /\ answers' = Append(answers, [fn |-> "resolveAuth", ok |-> TRUE])
    /\ UNCHANGED <<idleVars, result, slots, schedules, engine, out, exitCode>>

\* Authenticated without a Graph token, emails given: result is undefined, so
\* await getScheduleViaOutlook(...)
AuthThenOutlook ==
    /\ pc = "awaitAuth"
    /\ opts.emails
    /\ authResult' = [success |-> TRUE, graphToken |-> FALSE]
    /\ calls' = Append(calls, "getScheduleViaOutlook")
    /\ pc' = "awaitOutlook"
    /\ answers' = Append(answers, [fn |-> "resolveAuth", ok |-> TRUE])
    /\ UNCHANGED <<idleVars, result, slots, schedules, engine, out, exitCode>>

\* Authenticated, no emails: await getFreeBusy(...)
AuthThenFreeBusy ==
    /\ pc = "awaitAuth"
    /\ ~opts.emails
    /\ \E g \in BOOLEAN : authResult' = [success |-> TRUE, graphToken |-> g]
    /\ calls' = Append(calls, "getFreeBusy")
    /\ pc' = "awaitFreeBusy"
    /\ answers' = Append(answers, [fn |-> "resolveAuth", ok |-> TRUE])
    /\ UNCHANGED <<idleVars, result, slots, schedules, engine, out, exitCode>>

\* The rest of the multi-user branch once `result` is final: the error exit, or
\* the JSON dump or the text report.
FinishMulti(res, data) ==
    /\ result' = res
    /\ schedules' = data
    /\ IF FetchFailed(res)
       THEN /\ out' = ErrorOutput(res)
            /\ engine' = {}
            /\ exitCode' = 1
            /\ pc' = "exited"
       ELSE /\ out' = MultiOutput(data, opts, workStart, workEnd)
            /\ engine' = MultiEngine(data, opts)
            /\ exitCode' = 0
            /\ pc' = "done"
    /\ UNCHANGED <<idleVars, authResult, slots>>

\* The data an answer carries: some when it is ok and has data, none otherwise.
DataOf(res, Pool) == IF res.ok /\ res.hasData THEN Pool ELSE {<<>>}

\* NeedsFallback that also falls back on an ok answer without data.
NeedsFallback_NoData(res) == ~res.ok \/ ~res.hasData

\* if (!result?.ok), for the answer of getScheduleForUsers
NeedsFallback(res) == ~res.ok

\* getScheduleForUsers answers and the fallback is taken:
\* await getScheduleViaOutlook(...)
GraphFails ==
    /\ pc = "awaitGraph"
    /\ \E res \in {r \in FetchResults : NeedsFallback(r)} :
         /\ result' = res
         /\ answers' = Append(answers, [fn |-> "getScheduleForUsers", ok |-> res.ok])
    /\ calls' = Append(calls, "getScheduleViaOutlook")
    /\ pc' = "awaitOutlook"
    /\ UNCHANGED <<idleVars, authResult, slots, schedules, engine, out, exitCode>>

\* getScheduleForUsers answers and no fallback is taken: the branch finishes.
GraphSucceeds ==
    /\ pc = "awaitGraph"
    /\ \E res \in {r \in FetchResults : ~NeedsFallback(r)} :
         /\ answers' = Append(answers, [fn |-> "getScheduleForUsers", ok |-> res.ok])
         /\ \E data \in DataOf(res, ScheduleLists(MaxSchedules)) : FinishMulti(res, data)
    /\ UNCHANGED calls

\* getScheduleViaOutlook answers: the branch finishes.
OutlookReturns ==
    /\ pc = "awaitOutlook"
    /\ \E res \in FetchResults :
         /\ answers' = Append(answers, [fn |-> "getScheduleViaOutlook", ok |-> res.ok])
         /\ \E data \in DataOf(res, ScheduleLists(MaxSchedules)) : FinishMulti(res, data)
    /\ UNCHANGED calls

\* getFreeBusy answers: the error exit, or the JSON dump or the text report.
FreeBusyReturns ==
    /\ pc = "awaitFreeBusy"
    /\ \E res \in FetchResults :
         \E data \in DataOf(res, SeqsUpTo(OwnSlot, MaxSlots)) :
            /\ result' = res
            /\ slots' = data
            /\ answers' = Append(answers, [fn |-> "getFreeBusy", ok |-> res.ok])
            /\ IF FetchFailed(res)
               THEN /\ out' = ErrorOutput(res)
                    /\ engine' = {}
                    /\ exitCode' = 1
                    /\ pc' = "exited"
               ELSE /\ out' = OwnOutput(data, opts, workStart, workEnd)
                    /\ engine' = OwnEngine(opts)
                    /\ exitCode' = 0
                    /\ pc' = "done"
    /\ UNCHANGED <<idleVars, authResult, schedules, calls>>

Next ==
    \/ Invoke
    \/ AuthFails
    \/ AuthThenGraph
    \/ AuthThenOutlook
    \/ AuthThenFreeBusy
    \/ GraphFails
    \/ GraphSucceeds
    \/ OutlookReturns
    \/ FreeBusyReturns

Init == CommandInit

Spec == Init /\ [][Next]_vars

\* ------------------------------------------------------------------ the duration of every free slot

\* One free slot of every length up to MaxDuration minutes, from an hour of the day.
DurationInit ==
    /\ pc = "input"
    /\ \E h \in Hours, d \in 0..MaxDuration :
          freeOut = <<[start |-> SetHours(DayStart, h), end |-> SetHours(DayStart, h) + d]>>
    /\ slots = <<>>
    /\ workStart = 0
    /\ workEnd = 0
    /\ busyOut = <<>>
    /\ NoView
    /\ NoCommand

\* The body of the loop over freeSlots in the text free view: the line of one slot.
RenderFreeSlot ==
    /\ pc = "input"
    /\ out' = <<FreeLine(freeOut[1])>>
    /\ pc' = "rendered"
    /\ UNCHANGED <<sweepVars, viewVars, opts, authResult, result, schedules, calls,
                   answers, engine, exitCode, deleteVars>>

DurationNext == RenderFreeSlot

DurationSpec == DurationInit /\ [][DurationNext]_vars

\* ------------------------------------------------------------------ the delete-event command

\* The subjects of the calendar events and the texts of --search.
Subjects == {"Standup", "Lunch"}
SearchTexts == {"STAND", "lunch"}
\* The eventIndex argument: absent, empty, or a text.
IndexArgs == {Null, "", "0", "1", "2", "3", "4", "5", "2x", "-1", "abc"}

\* A calendar event as far as the command reads it; Subject may be absent.
\* The Id of an event is its position in the answer, so Ids are distinct.
EventAttributes == [IsOrganizer : BOOLEAN, IsCancelled : BOOLEAN, Subject : Subjects \cup {Null}]
WithIds(seq) ==
    [i \in 1..Len(seq) |->
        [Id |-> i, IsOrganizer |-> seq[i].IsOrganizer, IsCancelled |-> seq[i].IsCancelled,
         Subject |-> seq[i].Subject]]
EventLists(n) == {WithIds(seq) : seq \in SeqsUpTo(EventAttributes, n)}

\* What deleteEvent can answer.
DeleteResults ==
    {[ok |-> TRUE, error |-> Null],
     [ok |-> FALSE, error |-> "service error"],
     [ok |-> FALSE, error |-> Null]}

\* A string argument or option counts as given when it is neither undefined
\* nor empty (`!eventIndex`, `if (options.search)`).
Truthy(str) == str # Null /\ str # ""

\* String.prototype.toLowerCase on the texts of the model.
toLowerCase(str) ==
    CASE str = "Standup" -> "standup"
      [] str = "Lunch" -> "lunch"
      [] str = "STAND" -> "stand"
      [] OTHER -> str

\* String.prototype.includes on the lower-cased texts of the model.
includes(hay, needle) ==
    \/ needle = ""
    \/ hay = needle
    \/ hay = "standup" /\ needle = "stand"

\* parseInt on the index texts of the model: the leading integer, NaN without one.
parseInt(str) ==
    CASE str = "0" -> [nan |-> FALSE, value |-> 0]
      [] str = "1" -> [nan |-> FALSE, value |-> 1]
      [] str = "2" -> [nan |-> FALSE, value |-> 2]
      [] str = "3" -> [nan |-> FALSE, value |-> 3]
      [] str = "4" -> [nan |-> FALSE, value |-> 4]
      [] str = "5" -> [nan |-> FALSE, value |-> 5]
      [] str = "2x" -> [nan |-> FALSE, value |-> 2]
      [] str = "-1" -> [nan |-> FALSE, value |-> 0 - 1]
      [] OTHER -> [nan |-> TRUE, value |-> 0]

\* IsDeletable that lets cancelled events through.
IsDeletable_KeepsCancelled(e) == e.IsOrganizer

\* result.data.filter(e => e.IsOrganizer && !e.IsCancelled)
IsDeletable(e) == e.IsOrganizer /\ ~e.IsCancelled

\* events.filter(e => e.Subject?.toLowerCase().includes(searchLower)), when
\* --search is given
FilterEvents(data, search) ==
    LET owned == SelectSeq(data, IsDeletable)
        searchLower == toLowerCase(search)
        Matches(e) == e.Subject # Null /\ includes(toLowerCase(e.Subject), searchLower)
    IN  IF Truthy(search) THEN SelectSeq(owned, Matches) ELSE owned

\* isNaN(idx) || idx < 0 || idx >= events.length, for idx = parseInt(eventIndex) - 1
InvalidIndex(eventIndex, list) ==
    LET parsed == parseInt(eventIndex)
        idx == parsed.value - 1
    IN  parsed.nan \/ idx < 0 \/ idx >= Len(list)

\* events[idx], for a valid index
TargetEvent(eventIndex, list) == list[(parseInt(eventIndex).value - 1) + 1]

\* What the listing prints (no index given).
ListOutput(list, options) ==
    IF options.json
    THEN <<TextLine("json-events", 0, "events")>> \o
         [i \in 1..Len(list) |-> TextLine("event", i, list[i].Subject)]
    ELSE <<TextLine("header", 0, "Your events for")>> \o
         IF Len(list) = 0
         THEN <<TextLine("message", 0, "No events found that you can delete.")>>
         ELSE [i \in 1..Len(list) |-> TextLine("event", i, list[i].Subject)] \o
              <<TextLine("footer", 0, "To delete an event:")>>

DeleteInit ==
    /\ pc = "start"
    /\ deleteOpts \in [eventIndex : IndexArgs, search : SearchTexts \cup {Null, ""},
                        json : BOOLEAN]
    /\ fetched = <<>>
    /\ events = <<>>
    /\ deleted = <<>>
    /\ authResult = [success |-> FALSE, graphToken |-> FALSE]
    /\ result = NoResult
    /\ calls = <<>>
    /\ answers = <<>>
    /\ out = <<>>
    /\ exitCode = 0
    /\ opts = [emails |-> FALSE, json |-> FALSE, free |-> FALSE]
    /\ schedules = <<>>
    /\ engine = {}
    /\ NoSweep
    /\ NoView

freebusyVars == <<sweepVars, viewVars, opts, schedules, engine, deleteOpts>>

\* The action starts: await resolveAuth(...)
DeleteInvoke ==
    /\ pc = "start"
    /\ calls' = Append(calls, "resolveAuth")
    /\ pc' = "awaitAuth"
    /\ UNCHANGED <<freebusyVars, authResult, result, answers, out, exitCode, fetched,
                   events, deleted>>

\* resolveAuth answers without success: the error is printed, process.exit(1).
DeleteAuthFails ==
    /\ pc = "awaitAuth"
    /\ authResult' = [success |-> FALSE, graphToken |-> FALSE]
    /\ answers' = Append(answers, [fn |-> "resolveAuth", ok |-> FALSE])
    /\ out' = <<TextLine("error", 0, "authResult.error")>>
    /\ exitCode' = 1
    /\ pc' = "exited"
    /\ UNCHANGED <<freebusyVars, result, calls, fetched, events, deleted>>

\* Authenticated: await getCalendarEvents(...)
DeleteAuthThenFetch ==
    /\ pc = "awaitAuth"
    /\ \E g \in BOOLEAN : authResult' = [success |-> TRUE, graphToken |-> g]
    /\ answers' = Append(answers, [fn |-> "resolveAuth", ok |-> TRUE])
    /\ calls' = Append(calls, "getCalendarEvents")
    /\ pc' = "awaitEvents"
    /\ UNCHANGED <<freebusyVars, result, out, exitCode, fetched, events, deleted>>

\* getCalendarEvents answers: the error exit; or the filter and then the
\* listing, the invalid-index exit, or await deleteEvent(token, targetEvent.Id).
EventsReturn ==
    /\ pc = "awaitEvents"
    /\ \E res \in FetchResults :
         \E data \in DataOf(res, EventLists(MaxEvents)) :
            /\ result' = res
            /\ fetched' = data
            /\ answers' = Append(answers, [fn |-> "getCalendarEvents", ok |-> res.ok])
            /\ IF ~res.ok \/ ~res.hasData
               THEN /\ out' = <<TextLine("error", 0, IF res.error # Null THEN res.error
                                                     ELSE "Failed to fetch events")>>
                    /\ exitCode' = 1
                    /\ pc' = "exited"
                    /\ UNCHANGED <<events, calls, deleted>>
               ELSE LET list == FilterEvents(data, deleteOpts.search)
                    IN  /\ events' = list
                        /\ IF ~Truthy(deleteOpts.eventIndex)
                           THEN /\ out' = ListOutput(list, deleteOpts)
                                /\ exitCode' = 0
                                /\ pc' = "done"
                                /\ UNCHANGED <<calls, deleted>>
                           ELSE IF InvalidIndex(deleteOpts.eventIndex, list)
                           THEN /\ out' = <<TextLine("error", 0, "Invalid event number"),
                                            TextLine("error", Len(list), "Valid range")>>
                                /\ exitCode' = 1
                                /\ pc' = "exited"
                                /\ UNCHANGED <<calls, deleted>>
                           ELSE /\ out' = <<TextLine("deleting", 0,
                                              TargetEvent(deleteOpts.eventIndex, list).Subject)>>
                                /\ calls' = Append(calls, "deleteEvent")
                                /\ deleted' = Append(deleted,
                                              TargetEvent(deleteOpts.eventIndex, list).Id)
                                /\ pc' = "awaitDelete"
                                /\ UNCHANGED exitCode
    /\ UNCHANGED <<freebusyVars, authResult>>

\* deleteEvent answers: the error exit or the confirmation.
DeleteReturns ==
    /\ pc = "awaitDelete"
    /\ \E res \in DeleteResults :
         /\ answers' = Append(answers, [fn |-> "deleteEvent", ok |-> res.ok])
         /\ IF ~res.ok
            THEN /\ out' = Append(out, TextLine("error", 0, IF res.error # Null THEN res.error
                                                            ELSE "Failed to delete event"))
                 /\ exitCode' = 1
                 /\ pc' = "exited"
            ELSE /\ out' = Append(out, TextLine("deleted", 0, "Event deleted successfully."))
                 /\ exitCode' = 0
                 /\ pc' = "done"
    /\ UNCHANGED <<freebusyVars, authResult, result, calls, fetched, events, deleted>>

DeleteNext ==
    \/ DeleteInvoke
    \/ DeleteAuthFails
    \/ DeleteAuthThenFetch
    \/ EventsReturn
    \/ DeleteReturns

DeleteSpec == DeleteInit /\ [][DeleteNext]_vars

\* ------------------------------------------------------------------ reading the results

windowStart == SetHours(DayStart, workStart)
windowEnd == SetHours(DayStart, workEnd)

\* Every endpoint of the model lies on the hour grid, so a set of grid instants
\* stands for the union of the hour cells [c, c + 60) that start at them.
WindowCells == {c \in Instants : windowStart <= c /\ c < windowEnd}
CoveredBy(seq) == {c \in Instants : \E i \in 1..Len(seq) : seq[i].start <= c /\ c < seq[i].end}
CoveredByStatus(seq, Wanted(_)) ==
    {c \in Instants : \E i \in 1..Len(seq) :
        Wanted(seq[i].status) /\ seq[i].start <= c /\ c < seq[i].end}
NotFree(st) == st # "Free"
IsFree(st) == st = "Free"

\* The busy summaries read back as intervals of the day.
BusyIntervals(gaps) ==
    [i \in 1..Len(gaps) |-> [start |-> MinuteOfDay(gaps[i].startTime),
                             end |-> MinuteOfDay(gaps[i].endTime)]]

NonEmptyIntervals(seq) == \A i \in 1..Len(seq) : seq[i].start < seq[i].end
\* Start-ascending, pairwise disjoint and maximal: consecutive intervals are
\* separated by a gap.
SeparatedAscending(seq) == \A i \in 1..(Len(seq) - 1) : seq[i].end < seq[i + 1].start

WellFormedSlots == \A i \in 1..Len(slots) : slots[i].start < slots[i].end

\* ------------------------------------------------------------------ C1

\* C1: for every slot list and every valid work window, findFreeSlots returns
\* non-empty intervals that are start-ascending, disjoint and maximal, and whose
\* union is the window time covered by no slot of a status other than Free.
C1_FreeSlotsPartitionWindow ==
    pc = "free" =>
        /\ NonEmptyIntervals(freeOut)
        /\ SeparatedAscending(freeOut)
        /\ CoveredBy(freeOut) = WindowCells \ CoveredByStatus(slots, NotFree)

\* C1 on slot lists whose slots all have start < end.
C1_WellFormedFreeSlotsPartitionWindow ==
    (pc = "free" /\ WellFormedSlots) => C1_FreeSlotsPartitionWindow

\* ------------------------------------------------------------------ C2

\* C2: for every free-item list and every valid work window, findBusyFromFreeSlots
\* returns Busy intervals that are start-ascending, disjoint, unsplit, and whose
\* union is the window time covered by no free item.
C2_BusyGapsComplementFree ==
    pc = "busy" =>
        /\ \A i \in 1..Len(busyOut) : busyOut[i].status = "Busy"
        /\ NonEmptyIntervals(BusyIntervals(busyOut))
        /\ SeparatedAscending(BusyIntervals(busyOut))
        /\ CoveredBy(BusyIntervals(busyOut)) = WindowCells \ CoveredByStatus(slots, IsFree)

\* C2 on item lists whose items all have start < end.
C2_WellFormedBusyGapsComplementFree ==
    (pc = "busy" /\ WellFormedSlots) => C2_BusyGapsComplementFree

\* ------------------------------------------------------------------ C3

IntervalSlots == \A i \in 1..Len(slots) : slots[i].start <= slots[i].end

\* The slot list is one dataset over the window: its free-labelled intervals
\* cover exactly the window time its busy-labelled intervals leave.
FreeCoversTheRest ==
    CoveredByStatus(slots, IsFree) \cap WindowCells
        = WindowCells \ CoveredByStatus(slots, NotFree)

\* Every instant of the window lies in exactly one interval of seq, and no
\* interval of seq is empty or leaves the window.
TilesWindow(seq) ==
    /\ \A i \in 1..Len(seq) :
          windowStart <= seq[i].start /\ seq[i].start < seq[i].end /\ seq[i].end <= windowEnd
    /\ \A c \in WindowCells :
          Cardinality({i \in 1..Len(seq) : seq[i].start <= c /\ c < seq[i].end}) = 1

\* C3: when the free-labelled intervals of a dataset cover exactly the window
\* time its busy-labelled intervals leave, the free slots of findFreeSlots and
\* the busy gaps of findBusyFromFreeSlots together tile the window: every
\* instant of the window lies in exactly one of them.
C3_SweepsTileWindow ==
    (pc = "both" /\ IntervalSlots /\ FreeCoversTheRest)
        => TilesWindow(freeOut \o BusyIntervals(busyOut))

\* A dataset of one free and one tentative interval: each sweep returns one interval.
C3_Witness ==
    /\ pc = "both"
    /\ IntervalSlots
    /\ FreeCoversTheRest
    /\ Len(slots) = 2
    /\ slots[1].status = "Free" /\ slots[1].start < slots[1].end
    /\ slots[2].status = "Tentative"
    /\ Len(freeOut) = 1
    /\ Len(busyOut) = 1

\* ------------------------------------------------------------------ C4

SortedDisjoint(seq) == \A i \in 1..(Len(seq) - 1) : seq[i].end <= seq[i + 1].start
InsideWindow(seq) ==
    \A i \in 1..Len(seq) : windowStart <= seq[i].start /\ seq[i].end <= windowEnd
AllBusy == \A i \in 1..Len(slots) : slots[i].status # "Free"

\* C4: for busy intervals that are disjoint, sorted and inside the window,
\* findFreeSlots followed by findBusyFromFreeSlots on its result covers exactly
\* the time the busy intervals cover.
C4_RoundTripKeepsBusyCoverage ==
    (pc = "round" /\ AllBusy /\ IntervalSlots /\ SortedDisjoint(slots) /\ InsideWindow(slots))
        => CoveredBy(BusyIntervals(busyOut)) = CoveredBy(slots)

\* Two separate busy intervals strictly inside the window come back as two gaps.
C4_Witness ==
    /\ pc = "round"
    /\ AllBusy /\ IntervalSlots /\ SortedDisjoint(slots) /\ InsideWindow(slots)
    /\ Len(slots) = 2
    /\ slots[1].start < slots[1].end
    /\ slots[1].end < slots[2].start
    /\ Len(freeOut) = 1
    /\ Len(busyOut) = 2

\* ------------------------------------------------------------------ C8

\* C8: a single busy interval equal to the window leaves no free slot; a single
\* busy interval outside the window, touching it or not, leaves the whole window.
C8_BoundaryCases ==
    (pc = "free" /\ Len(slots) = 1 /\ slots[1].status # "Free"
                 /\ slots[1].start <= slots[1].end)
        => /\ (slots[1].start = windowStart /\ slots[1].end = windowEnd)
                => freeOut = <<>>
           /\ (slots[1].end <= windowStart \/ slots[1].start >= windowEnd)
                => freeOut = <<[start |-> windowStart, end |-> windowEnd]>>

\* A busy hour that begins where the window ends.
C8_Witness ==
    /\ pc = "free"
    /\ Len(slots) = 1
    /\ slots[1].status = "Busy"
    /\ slots[1].start = windowEnd
    /\ slots[1].start < slots[1].end
    /\ freeOut = <<[start |-> windowStart, end |-> windowEnd]>>

\* ------------------------------------------------------------------ C5

BucketStatus(i) == statusMap(view[i])
\* The buckets (1-based) at which a run of one non-Free status begins.
RunStarts ==
    {i \in 1..Len(view) :
        BucketStatus(i) # "Free" /\ (i = 1 \/ BucketStatus(i - 1) # BucketStatus(i))}
\* The last bucket of the run that begins at bucket i.
RunLast(i) ==
    CHOOSE j \in i..Len(view) :
        /\ \A k \in i..j : BucketStatus(k) = BucketStatus(i)
        /\ (j = Len(view) \/ BucketStatus(j + 1) # BucketStatus(i))
\* The k-th smallest element of a set of numbers.
Nth(S, k) == CHOOSE x \in S : Cardinality({y \in S : y < x}) = k - 1
ExpectedBlocks ==
    [k \in 1..Cardinality(RunStarts) |->
        LET i == Nth(RunStarts, k)
        IN  [start |-> viewArgs.startDate + (i - 1) * viewArgs.intervalMinutes,
             end |-> viewArgs.startDate + RunLast(i) * viewArgs.intervalMinutes,
             status |-> BucketStatus(i)]]

\* C5: parseAvailabilityView returns, in bucket order, one block per maximal run
\* of contiguous buckets of one non-Free status, from the start of the run's
\* first bucket to the end of its last; no block is Free.
C5_DecoderMergesRuns ==
    pc = "decoded" =>
        /\ blocks = ExpectedBlocks
        /\ \A i \in 1..Len(blocks) : blocks[i].status # "Free"

\* "0221": a Busy run of two buckets, then a Tentative run flushed at the end.
C5_Witness ==
    /\ pc = "decoded"
    /\ view = <<"0", "2", "2", "1">>
    /\ viewArgs = [startDate |-> DayStart, intervalMinutes |-> 30]
    /\ blocks = <<[start |-> 30, end |-> 90, status |-> "Busy"],
                 [start |-> 90, end |-> 120, status |-> "Tentative"]>>

\* ------------------------------------------------------------------ reading the report

\* The instant a rendered time names: "HH:MM" as the minute of the day, an ISO
\* string as the instant it was made from.
InstantOf(x) ==
    IF Len(x) = 2 THEN MinuteOfDay(x)
    ELSE x[1] * MinutesPerDay + x[2] * MinutesPerHour + x[3]

IntervalLines == {i \in 1..Len(out) : out[i].kind = "interval"}
Finished == pc \in {"done", "exited"}

\* ------------------------------------------------------------------ C6

\* C6: every availability result the command renders (own busy slots, busy gaps
\* from free items, decoded blocks, free slots) is sorted by start ascending and
\* no two of its intervals overlap.
C6_RenderedSortedDisjoint ==
    \A i, j \in IntervalLines :
        (i < j /\ out[i].sched = out[j].sched)
            => /\ InstantOf(out[i].start) <= InstantOf(out[j].start)
               /\ InstantOf(out[i].end) <= InstantOf(out[j].start)

\* ------------------------------------------------------------------ C7

InWindow(line) ==
    /\ windowStart <= InstantOf(line.start)
    /\ InstantOf(line.end) <= windowEnd

\* C7 as claimed: every interval the command reports, for each of the three
\* remote shapes, lies within the work window.
C7_ReportedWithinWindow ==
    workStart < workEnd => \A i \in IntervalLines : InWindow(out[i])

\* C7 as amended: every free slot and every busy gap computed from free items
\* that the command reports lies within the work window (the own busy view and
\* the decoded availability view report the fetched day unclamped).
C7_FreeAndGapsWithinWindow ==
    \A i \in IntervalLines : out[i].view \in {"free", "gaps"} => InWindow(out[i])

\* A free item that begins before the window and ends inside it: the gap after
\* it is reported from the item's end to the window's end.
C7_Witness ==
    /\ pc = "done"
    /\ Len(schedules) = 1
    /\ Len(schedules[1].scheduleItems) = 1
    /\ schedules[1].scheduleItems[1].status = "Free"
    /\ schedules[1].scheduleItems[1].start < windowStart
    /\ schedules[1].scheduleItems[1].end > windowStart
    /\ schedules[1].scheduleItems[1].end < windowEnd
    /\ \E i \in IntervalLines :
          /\ out[i].view = "gaps"
          /\ out[i].start = formatTime(schedules[1].scheduleItems[1].end)
          /\ out[i].end = formatTime(windowEnd)

\* ------------------------------------------------------------------ C9

Count(seq, x) == Cardinality({i \in 1..Len(seq) : seq[i] = x})
PrimaryFailed == \E i \in 1..Len(answers) : answers[i].fn = "getScheduleForUsers" /\ ~answers[i].ok
PrimarySucceeded == \E i \in 1..Len(answers) : answers[i].fn = "getScheduleForUsers" /\ answers[i].ok
PrimaryCalledBefore(j) == \E i \in 1..(j - 1) : calls[i] = "getScheduleForUsers"
OneAttemptEach ==
    /\ Count(calls, "getScheduleForUsers") <= 1
    /\ Count(calls, "getScheduleViaOutlook") <= 1

\* C9 as claimed: the primary source is attempted first, the secondary only
\* after the primary has failed, never after a successful primary, and no source
\* is called twice.
C9_SecondaryOnlyAfterPrimaryFailed ==
    /\ OneAttemptEach
    /\ PrimarySucceeded => Count(calls, "getScheduleViaOutlook") = 0
    /\ \A j \in 1..Len(calls) :
          calls[j] = "getScheduleViaOutlook" => (PrimaryCalledBefore(j) /\ PrimaryFailed)

\* C9 as amended: the secondary source is attempted only after the primary has
\* failed or, when authentication gave no Graph token, without any attempt of
\* the primary; never after a successful primary; no source is called twice.
C9_SequentialFallback ==
    /\ OneAttemptEach
    /\ PrimarySucceeded => Count(calls, "getScheduleViaOutlook") = 0
    /\ \A j \in 1..Len(calls) :
          calls[j] = "getScheduleViaOutlook"
            => \/ PrimaryCalledBefore(j) /\ PrimaryFailed
               \/ ~authResult.graphToken /\ Count(calls, "getScheduleForUsers") = 0

\* The primary failed and the secondary answered.
C9_Witness ==
    /\ Finished
    /\ calls = <<"resolveAuth", "getScheduleForUsers", "getScheduleViaOutlook">>
    /\ PrimaryFailed
    /\ Len(answers) = 3

\* ------------------------------------------------------------------ C10

\* C10: a run whose final fetch answer is not ok or carries no data ends with
\* an error message and exit code 1, executes none of the interval functions
\* and prints no availability line.
C10_FailedFetchOnlyErrors ==
    (Finished /\ authResult.success /\ (~result.ok \/ ~result.hasData))
        => /\ pc = "exited"
           /\ exitCode = 1
           /\ Len(out) = 1
           /\ out[1].kind = "error"
           /\ out[1].text # ""
           /\ engine = {}

\* An ok answer of the primary source without data: no fallback, error exit.
C10_Witness ==
    /\ pc = "exited"
    /\ calls = <<"resolveAuth", "getScheduleForUsers">>
    /\ result.ok
    /\ ~result.hasData
    /\ exitCode = 1
    /\ out = <<TextLine("error", 0, "Failed to fetch schedule")>>

\* ------------------------------------------------------------------ C11

\* The intervals the run computed for the own schedule: the free slots with
\* --free, the slots of a status other than Free without.
OwnComputed ==
    IF opts.free THEN findFreeSlots(slots, DayStart, DayEnd, workStart, workEnd)
    ELSE MapIntervals(SelectSeq(slots, IsBusySlot))
\* The intervals the run computed for mailbox k of a multi-user answer.
ScheduleComputed(k) ==
    IF Len(schedules[k].scheduleItems) > 0
    THEN BusyIntervals(findBusyFromFreeSlots(schedules[k].scheduleItems, DayStart,
                                             workStart, workEnd))
    ELSE MapIntervals(parseAvailabilityView(schedules[k].availabilityView, DayStart, 30))
\* The sections of the report: 0 for the own schedule, k for mailbox k.
Sections == IF opts.emails THEN 1..Len(schedules) ELSE {0}
Computed(k) == IF k = 0 THEN OwnComputed ELSE ScheduleComputed(k)
MessagesOf(k) == {i \in 1..Len(out) : out[i].kind = "message" /\ out[i].sched = k}
IntervalsOf(k) == {i \in 1..Len(out) : out[i].kind = "interval" /\ out[i].sched = k}
AllClearMessages ==
    {"All day free!", "No free time during working hours.", "Free during working hours",
     "Free all day"}

\* C11 as claimed: every run whose computed result has no interval ends
\* without error and prints an 'all clear' / 'no free time' message for it,
\* not an empty list.
C11_EmptyResultGetsMessage ==
    pc = "done" =>
        \A k \in Sections :
            Len(Computed(k)) = 0 => (exitCode = 0 /\ MessagesOf(k) # {})

\* C11 as amended: in a run without --json, every computed result without an
\* interval is printed as exactly one of the 'all clear' / 'no free time'
\* messages and no interval line, every other one as its interval lines and no
\* message, and the run ends without error.
C11_TextEmptyResultGetsMessage ==
    (pc = "done" /\ ~opts.json) =>
        /\ exitCode = 0
        /\ \A k \in Sections :
              IF Len(Computed(k)) = 0
              THEN /\ IntervalsOf(k) = {}
                   /\ Cardinality(MessagesOf(k)) = 1
                   /\ \A i \in MessagesOf(k) : out[i].text \in AllClearMessages
              ELSE /\ MessagesOf(k) = {}
                   /\ Cardinality(IntervalsOf(k)) = Len(Computed(k))

\* A busy slot over the whole window, asked for free times in text: the run
\* prints the header and the message.
C11_Witness ==
    /\ pc = "done"
    /\ ~opts.emails /\ opts.free /\ ~opts.json
    /\ workStart < workEnd
    /\ Len(slots) = 1
    /\ slots[1].status = "Busy"
    /\ slots[1].start <= windowStart /\ slots[1].end >= windowEnd
    /\ exitCode = 0
    /\ out = <<TextLine("header", 0, "Free times for"),
               TextLine("message", 0, "No free time during working hours.")>>

\* ------------------------------------------------------------------ C12

\* The minutes a rendered duration names.
RECURSIVE MinutesOf(_)
MinutesOf(terms) ==
    IF terms = <<>> THEN 0
    ELSE (IF Head(terms).unit = "h" THEN Head(terms).n * MinutesPerHour ELSE Head(terms).n)
         + MinutesOf(Tail(terms))

\* C12: a free slot of d whole minutes, d >= 0, is rendered as '{h}h {m}m' with
\* h = d div 60 and m = d mod 60, without the minutes term when m = 0 and h > 0,
\* without the hours term when h = 0, and as '0m' when d = 0
\* (90 -> '1h 30m', 45 -> '45m', 60 -> '1h', 0 -> '0m').
C12_DurationRendering ==
    pc = "rendered" =>
        LET d == freeOut[1].end - freeOut[1].start
            h == d \div 60
            m == d % 60
            shown == out[1].duration
        IN  /\ (h > 0 /\ m > 0) => shown = <<Term(h, "h"), Term(m, "m")>>
            /\ (h > 0 /\ m = 0) => shown = <<Term(h, "h")>>
            /\ h = 0 => shown = <<Term(m, "m")>>
            /\ MinutesOf(shown) = d
            /\ d = 90 => shown = <<Term(1, "h"), Term(30, "m")>>
            /\ d = 45 => shown = <<Term(45, "m")>>
            /\ d = 60 => shown = <<Term(1, "h")>>
            /\ d = 0 => shown = <<Term(0, "m")>>

\* A slot of 90 minutes is rendered as '1h 30m'.
C12_Witness ==
    /\ pc = "rendered"
    /\ freeOut[1].end - freeOut[1].start = 90
    /\ out[1].duration = <<Term(1, "h"), Term(30, "m")>>

\* ------------------------------------------------------------------ C13

\* Array.prototype.filter((_, j) => j !== i): the list without its i-th element.
Without(seq, i) == SubSeq(seq, 1, i - 1) \o SubSeq(seq, i + 1, Len(seq))

\* The intersection of the interval with the work window is empty: its clamped
\* start is not before its clamped end.
EmptyInWindow(s) ==
    LET clampedStart == IF s.start < windowStart THEN windowStart ELSE s.start
        clampedEnd == IF s.end > windowEnd THEN windowEnd ELSE s.end
    IN  clampedStart >= clampedEnd

\* C13: an input interval whose intersection with the work window is empty
\* makes no contribution to either sweep: findFreeSlots and findBusyFromFreeSlots
\* return what they return for the input without that interval.
C13_EmptyIntervalsDiscarded ==
    /\ pc = "free" =>
          \A i \in 1..Len(slots) :
              EmptyInWindow(slots[i])
                => freeOut = findFreeSlots(Without(slots, i), DayStart, DayEnd,
                                           workStart, workEnd)
    /\ pc = "busy" =>
          \A i \in 1..Len(slots) :
              EmptyInWindow(slots[i])
                => busyOut = findBusyFromFreeSlots(Without(slots, i), DayStart,
                                                   workStart, workEnd)

\* C13 on intervals that lie outside the window or touch it from outside.
C13_OutsideIntervalsDiscarded ==
    /\ pc = "free" =>
          \A i \in 1..Len(slots) :
              (slots[i].start <= slots[i].end
                  /\ (slots[i].end <= windowStart \/ slots[i].start >= windowEnd))
                => freeOut = findFreeSlots(Without(slots, i), DayStart, DayEnd,
                                           workStart, workEnd)
    /\ pc = "busy" =>
          \A i \in 1..Len(slots) :
              (slots[i].start <= slots[i].end
                  /\ (slots[i].end <= windowStart \/ slots[i].start >= windowEnd))
                => busyOut = findBusyFromFreeSlots(Without(slots, i), DayStart,
                                                   workStart, workEnd)

\* ------------------------------------------------------------------ C14

KnownCodes == {"0", "1", "2", "3", "4"}
UnknownBuckets == {i \in 1..Len(view) : view[i] \notin KnownCodes}
\* The time of bucket i (1-based): [BucketStart(i), BucketEnd(i)).
BucketStart(i) == viewArgs.startDate + (i - 1) * viewArgs.intervalMinutes
BucketEnd(i) == viewArgs.startDate + i * viewArgs.intervalMinutes
\* The buckets a block spans.
BucketsOf(b) == {i \in 1..Len(view) : b.start <= BucketStart(i) /\ BucketEnd(i) <= b.end}

\* C14: every bucket whose code is not one of '0'..'4' lies in a block of
\* status Unknown; a block of status Unknown spans unknown buckets only and
\* all of a maximal run of them, so contiguous Unknown buckets are one block
\* and an adjacent run of another status is a block of its own that abuts it.
C14_UnknownIsOccupied ==
    pc = "decoded" =>
        /\ \A i \in UnknownBuckets :
              Cardinality({k \in 1..Len(blocks) :
                              blocks[k].status = "Unknown" /\ i \in BucketsOf(blocks[k])}) = 1
        /\ \A k \in 1..Len(blocks) :
              blocks[k].status = "Unknown" =>
                  /\ BucketsOf(blocks[k]) # {}
                  /\ BucketsOf(blocks[k]) \subseteq UnknownBuckets
                  /\ \A i \in BucketsOf(blocks[k]) :
                        /\ (i > 1 /\ i - 1 \in UnknownBuckets) => i - 1 \in BucketsOf(blocks[k])
                        /\ (i < Len(view) /\ i + 1 \in UnknownBuckets)
                              => i + 1 \in BucketsOf(blocks[k])
        /\ \A k \in 1..Len(blocks) :
              blocks[k].status # "Unknown" => BucketsOf(blocks[k]) \cap UnknownBuckets = {}

\* "2xy1": two different unknown codes between a Busy and a Tentative bucket
\* are one Unknown block that abuts both.
C14_Witness ==
    /\ pc = "decoded"
    /\ view = <<"2", "x", "y", "1">>
    /\ viewArgs = [startDate |-> DayStart, intervalMinutes |-> 30]
    /\ blocks = <<[start |-> 0, end |-> 30, status |-> "Busy"],
                 [start |-> 30, end |-> 90, status |-> "Unknown"],
                 [start |-> 90, end |-> 120, status |-> "Tentative"]>>

\* ------------------------------------------------------------------ C15

\* C15: with a work window whose start hour is not before its end hour,
\* findFreeSlots and findBusyFromFreeSlots return the empty list for every
\* input: no free slot and no busy gap is emitted.
C15_InvertedWindowGivesNothing ==
    workStart >= workEnd =>
        /\ pc = "free" => freeOut = <<>>
        /\ pc = "busy" => busyOut = <<>>

\* A busy slot and a free item that both span an inverted window: each sweep
\* reaches its loop body and still returns nothing.
C15_Witness ==
    /\ pc \in {"free", "busy"}
    /\ workStart > workEnd
    /\ Len(slots) = 2
    /\ slots[1].status = "Busy" /\ slots[2].status = "Free"
    /\ \A i \in 1..2 : slots[i].start < windowEnd /\ slots[i].end > windowStart
    /\ freeOut = <<>>
    /\ busyOut = <<>>

\* ------------------------------------------------------------------ C16

\* The event may be deleted: the user organised it, it is not cancelled, and
\* its subject contains the text of --search (in any case) when one is given.
Qualifies(e) ==
    /\ e.IsOrganizer
    /\ ~e.IsCancelled
    /\ Truthy(deleteOpts.search)
          => (e.Subject # Null
                /\ includes(toLowerCase(e.Subject), toLowerCase(deleteOpts.search)))
\* The 1-based position of fetched[i] among the events that qualify.
Rank(i) == Cardinality({j \in 1..i : Qualifies(fetched[j])})
Qualifying == {j \in 1..Len(fetched) : Qualifies(fetched[j])}
\* An index argument is given: eventIndex is neither absent nor empty.
IndexGiven == Truthy(deleteOpts.eventIndex)
IndexInRange ==
    /\ ~parseInt(deleteOpts.eventIndex).nan
    /\ parseInt(deleteOpts.eventIndex).value \in 1..Cardinality(Qualifying)
FetchSucceeded == authResult.success /\ result.ok /\ result.hasData

\* C16: deleteEvent is called at most once, and only after resolveAuth and
\* getCalendarEvents succeeded, with an index given that parses to a number in
\* 1..n, n the number of events that qualify; the event deleted is the one at
\* that position among the qualifying events, so never one the user did not
\* organise or a cancelled one; a given index out of that range ends the run
\* with an error, exit code 1 and no deletion.
C16_DeleteOnlyChosenOwnEvent ==
    /\ Len(deleted) <= 1
    /\ Count(calls, "deleteEvent") = Len(deleted)
    /\ deleted # <<>> =>
          /\ SubSeq(calls, 1, 3) = <<"resolveAuth", "getCalendarEvents", "deleteEvent">>
          /\ FetchSucceeded
          /\ IndexGiven
          /\ IndexInRange
          /\ \E i \in Qualifying :
                /\ fetched[i].Id = deleted[1]
                /\ Rank(i) = parseInt(deleteOpts.eventIndex).value
          /\ \A i \in 1..Len(fetched) :
                (~fetched[i].IsOrganizer \/ fetched[i].IsCancelled)
                    => fetched[i].Id # deleted[1]
    /\ (Finished /\ FetchSucceeded /\ IndexGiven /\ ~IndexInRange) =>
          /\ pc = "exited"
          /\ exitCode = 1
          /\ deleted = <<>>
          /\ out[1].kind = "error"

\* Index "1" with --search on a day whose first event of that subject is not
\* the user's: the second event is the one deleted.
C16_Witness ==
    /\ pc = "done"
    /\ deleteOpts.eventIndex = "1"
    /\ deleteOpts.search = "STAND"
    /\ Len(fetched) = 3
    /\ fetched[1].Subject = "Standup" /\ ~fetched[1].IsOrganizer
    /\ fetched[2].Subject = "Standup" /\ fetched[2].IsOrganizer /\ ~fetched[2].IsCancelled
    /\ fetched[3].IsCancelled
    /\ deleted = <<fetched[2].Id>>
    /\ calls = <<"resolveAuth", "getCalendarEvents", "deleteEvent">>
    /\ out[Len(out)].kind = "deleted"

====
